---- MODULE Spec2Model ----
(***************************************************************************)
(* ClickUp <> Motion sync worker: the scheduled run (runSync), the pass    *)
(* over one mapping (processSyncPair), the D1 tables SyncMappings and      *)
(* TaskLinks, and the two remote task systems seen through their clients.  *)
(* Times are milliseconds since the epoch; an ISO 8601 string is           *)
(* represented by the millisecond value it denotes.                        *)
(***************************************************************************)
EXTENDS Integers, Sequences, FiniteSets, TLC

\* ------------------------------------------------------------------ bounds
MaxClock == 2
MaxFaults == 1
MaxMotionTasks == 2
MaxPages == 3

\* ---------------------------------------------------------------- universe
Null == -1
NaN == -2
Epoch == 0
Undefined == "undefined"
CLICKUP_DONE_STATUS_NAME == "complete"

Mappings == {1, 2}
ClickUpTaskIds == {1, 2}
MotionTaskIds == 1..MaxMotionTasks
Runs == {1, 2}

\* The users make at most as many edits as there are ClickUp tasks.
MaxEdits == Cardinality(ClickUpTaskIds)

\* SyncMappings rows: mapping id m binds ClickUp list m to Motion workspace m.
clickup_list_id(m) == m
motion_workspace_id(m) == m

\* The ClickUp list a task lives in, and the users assigned to it.
ListOf(a) == 1
AssigneesOf(a) == IF a = 1 THEN <<7>> ELSE <<>>

VARIABLES
    clock,      \* wall-clock time (new Date())
    cursor,     \* SyncMappings.last_sync_timestamp per mapping id (Null = NULL)
    is_active,  \* SyncMappings.is_active per mapping id (0 or 1)
    links,      \* TaskLinks rows
    clk,        \* ClickUp tasks: id -> [date_updated, status]
    mot,        \* Motion tasks: id -> [workspace, updatedTime, createdTime, completed,
                \*   origin (the name it was created with)]
    run,        \* per invocation of scheduled: "idle" | "running" | "finished"
    task,       \* per invocation and mapping: the state of the mapping callback
    faults,     \* number of raised remote / store errors so far
    edits,      \* number of user edits so far
    upstream,   \* per mapping: a user changed a task of it since its last pass began
    lastPass,   \* per mapping: outcome of its most recent ended pass
    env,        \* the worker's secrets: CLICKUP_API_KEY and MOTION_API_KEY
    input,      \* the argument of a dataTransformer call under test
    output      \* what that call returned

vars == <<clock, cursor, is_active, links, clk, mot, run, task, faults, edits, upstream, lastPass,
          env, input, output>>

\* ------------------------------------------------------------------ helpers
Min(S) == CHOOSE x \in S : \A y \in S : x <= y

RECURSIVE SortedSeq(_)
SortedSeq(S) == IF S = {} THEN <<>> ELSE <<Min(S)>> \o SortedSeq(S \ {Min(S)})

Terminal == {"done", "failed"}

IdleTask ==
    [pc |-> "idle", lastSync |-> Epoch, start |-> Epoch,
     updatedClickUpTasks |-> <<>>, updatedMotionTasks |-> <<>>, i |-> 0,
     newMotionTask |-> Null, existingLink |-> Null,
     visitedClk |-> {}, visitedMot |-> {}, unlinked |-> {},
     createCalls |-> {}, created |-> {}, linkCalls |-> {}, linked |-> {},
     updateCalls |-> {}, caught |-> {}, conflicts |-> {},
     failedAt |-> "none", quiet |-> FALSE]

\* ------------------------------------------------------------ dataTransformer
\* clickUpDateToMotionISO: a ClickUp millisecond string to an ISO string.
clickUpDateToMotionISO(dateString) ==
    IF dateString = Null THEN Null
    ELSE IF dateString = NaN THEN Null
    ELSE dateString

\* motionISOToClickUpTimestamp: new Date(iso).getTime(); an unparseable string
\* gives NaN and nothing is thrown.
motionISOToClickUpTimestamp(isoString) ==
    IF isoString = Null THEN Null
    ELSE IF isoString = NaN THEN NaN
    ELSE isoString

\* x / d truncated to an integer.
FloorDiv(x, d) == x \div d

\* Math.round(x / d) for x >= 0: rounds half up.
RoundDiv(x, d) == (2 * x + d) \div (2 * d)

\* The value of a userMap argument: a Map<number, string> (ClickUp user id to
\* Motion user id), or undefined when the argument is not passed.
UndefinedMap == [defined |-> FALSE, entries |-> <<>>]
MapOf(entries) == [defined |-> TRUE, entries |-> entries]

\* transformClickUpToMotion leaving assigneeIds out when no assignee of the
\* task is in userMap.
transformClickUpToMotionOmittingEmptyAssignees(clickUpTask, motionWorkspaceId, userMap) ==
    LET base == [workspaceId |-> motionWorkspaceId, name |-> clickUpTask.name]
        dueDateISO == clickUpDateToMotionISO(clickUpTask.due_date)
        withDue == IF dueDateISO # Null
                   THEN base @@ [dueDate |-> dueDateISO] ELSE base
        est == clickUpTask.time_estimate
        durationMinutes == IF est # Null /\ est > 0 THEN RoundDiv(est, 60000) ELSE 0
        withDur == IF durationMinutes > 0
                   THEN withDue @@ [duration |-> durationMinutes] ELSE withDue
        hasAssignees == Len(clickUpTask.assignees) > 0
        mapped == IF hasAssignees /\ userMap.defined
                  THEN SelectSeq([k \in 1..Len(clickUpTask.assignees) |->
                                    IF clickUpTask.assignees[k] \in DOMAIN userMap.entries
                                    THEN userMap.entries[clickUpTask.assignees[k]]
                                    ELSE Null],
                                 LAMBDA x : x # Null)
                  ELSE <<>>
        withAsg == IF mapped # <<>>
                   THEN withDur @@ [assigneeIds |-> mapped] ELSE withDur
    IN  IF hasAssignees /\ ~userMap.defined
        THEN [threw |-> TRUE, payload |-> base]
        ELSE [threw |-> FALSE, payload |-> withAsg]

\* transformClickUpToMotion: the creation payload, or a TypeError when the
\* task has assignees and userMap is undefined (userMap.get).
transformClickUpToMotion(clickUpTask, motionWorkspaceId, userMap) ==
    LET base == [workspaceId |-> motionWorkspaceId, name |-> clickUpTask.name]
        dueDateISO == clickUpDateToMotionISO(clickUpTask.due_date)
        withDue == IF dueDateISO # Null
                   THEN base @@ [dueDate |-> dueDateISO] ELSE base
        est == clickUpTask.time_estimate
        durationMinutes == IF est # Null /\ est > 0 THEN RoundDiv(est, 60000) ELSE 0
        withDur == IF durationMinutes > 0
                   THEN withDue @@ [duration |-> durationMinutes] ELSE withDue
        hasAssignees == Len(clickUpTask.assignees) > 0
        mapped == IF hasAssignees /\ userMap.defined
                  THEN SelectSeq([k \in 1..Len(clickUpTask.assignees) |->
                                    IF clickUpTask.assignees[k] \in DOMAIN userMap.entries
                                    THEN userMap.entries[clickUpTask.assignees[k]]
                                    ELSE Null],
                                 LAMBDA x : x # Null)
                  ELSE <<>>
        withAsg == IF hasAssignees
                   THEN withDur @@ [assigneeIds |-> mapped] ELSE withDur
    IN  IF hasAssignees /\ ~userMap.defined
        THEN [threw |-> TRUE, payload |-> base]
        ELSE [threw |-> FALSE, payload |-> withAsg]

\* A payload with no key set.
EmptyPayload == [k \in {} |-> Null]

\* due_date is assigned only when the Motion task has a due date.
DueDateUpdateWhenSet(motionTask) ==
    IF motionISOToClickUpTimestamp(motionTask.dueDate) # Null
    THEN [due_date |-> motionISOToClickUpTimestamp(motionTask.dueDate)]
    ELSE EmptyPayload

\* Due Date Update: due_date is assigned whatever the conversion returns.
DueDateUpdate(motionTask) ==
    [due_date |-> motionISOToClickUpTimestamp(motionTask.dueDate)]

\* The status of the Motion task copied in both directions.
CompletionStatusMirrored(motionTask) ==
    [status |-> IF motionTask.completed THEN CLICKUP_DONE_STATUS_NAME ELSE "open"]

\* Completion Status Update: status is set only when the Motion task is
\* completed.
CompletionStatusUpdate(motionTask) ==
    IF motionTask.completed
    THEN [status |-> CLICKUP_DONE_STATUS_NAME]
    ELSE EmptyPayload

\* A zero duration handled like an absent one.
DurationUpdateWhenPositive(motionTask) ==
    IF motionTask.duration # Null /\ motionTask.duration > 0
    THEN [time_estimate |-> motionTask.duration * 60000]
    ELSE EmptyPayload

\* Duration Update: minutes to milliseconds when positive, null when zero,
\* no key otherwise.
DurationUpdate(motionTask) ==
    LET d == motionTask.duration
    IN  IF d # Null /\ d > 0
        THEN IF d * 60000 > 0 THEN [time_estimate |-> d * 60000] ELSE EmptyPayload
        ELSE IF d = 0
        THEN [time_estimate |-> Null]
        ELSE EmptyPayload

\* The update payload with the task's name copied as well.
transformMotionToClickUpWithName(motionTask) ==
    [name |-> motionTask.id] @@ DueDateUpdate(motionTask)
        @@ CompletionStatusUpdate(motionTask) @@ DurationUpdate(motionTask)

\* transformMotionToClickUp: the update payload (a record whose fields are the
\* keys that were set).
transformMotionToClickUp(motionTask) ==
    DueDateUpdate(motionTask) @@ CompletionStatusUpdate(motionTask)
        @@ DurationUpdate(motionTask)

\* ------------------------------------------------------------------ dbClient
\* TaskLinks: clickup_task_id is the PRIMARY KEY, motion_task_id is UNIQUE.
getTaskLinkByClickupId(rows, clickupTaskId) ==
    {l \in rows : l.clickup_task_id = clickupTaskId}

getTaskLinkByMotionId(rows, motionTaskId) ==
    {l \in rows : l.motion_task_id = motionTaskId}

\* INSERT INTO TaskLinks without the table's constraints.
createTaskLinkNoConstraint(rows, clickupTaskId, motionTaskId) ==
    [ok |-> TRUE,
     rows |-> rows \cup {[clickup_task_id |-> clickupTaskId,
                          motion_task_id |-> motionTaskId]}]

\* INSERT OR REPLACE INTO TaskLinks: the rows in the way are removed.
createTaskLinkOrReplace(rows, clickupTaskId, motionTaskId) ==
    [ok |-> TRUE,
     rows |-> {l \in rows : /\ l.clickup_task_id # clickupTaskId
                            /\ l.motion_task_id # motionTaskId}
                \cup {[clickup_task_id |-> clickupTaskId,
                       motion_task_id |-> motionTaskId]}]

\* INSERT ... ON CONFLICT (clickup_task_id) DO UPDATE SET motion_task_id: the
\* row of the ClickUp task is pointed at the new Motion task.
createTaskLinkUpsert(rows, clickupTaskId, motionTaskId) ==
    [ok |-> TRUE,
     rows |-> {l \in rows : l.clickup_task_id # clickupTaskId}
                \cup {[clickup_task_id |-> clickupTaskId,
                       motion_task_id |-> motionTaskId]}]

\* INSERT INTO TaskLinks with motion_task_id as the only unique column.
createTaskLinkUniqueMotionIdOnly(rows, clickupTaskId, motionTaskId) ==
    IF \E l \in rows : l.motion_task_id = motionTaskId
    THEN [ok |-> FALSE, rows |-> rows]
    ELSE [ok |-> TRUE,
          rows |-> rows \cup {[clickup_task_id |-> clickupTaskId,
                               motion_task_id |-> motionTaskId]}]

\* createTaskLink: INSERT INTO TaskLinks; a constraint violation raises and
\* the table is left as it was.
createTaskLink(rows, clickupTaskId, motionTaskId) ==
    IF \E l \in rows : l.clickup_task_id = clickupTaskId
                       \/ l.motion_task_id = motionTaskId
    THEN [ok |-> FALSE, rows |-> rows]
    ELSE [ok |-> TRUE,
          rows |-> rows \cup {[clickup_task_id |-> clickupTaskId,
                               motion_task_id |-> motionTaskId]}]

\* UPDATE SyncMappings SET last_sync_timestamp = <the time of the write> WHERE id = ?
updateSyncTimestampNow(cur, mappingId, timestamp) ==
    [cur EXCEPT ![mappingId] = clock]

\* UPDATE SyncMappings SET last_sync_timestamp = ? (no WHERE clause)
updateSyncTimestampAllRows(cur, mappingId, timestamp) ==
    [m \in DOMAIN cur |-> timestamp]

\* UPDATE SyncMappings SET last_sync_timestamp = ? WHERE id = ? AND
\* (last_sync_timestamp IS NULL OR last_sync_timestamp < ?)
updateSyncTimestampIfLater(cur, mappingId, timestamp) ==
    IF cur[mappingId] = Null \/ cur[mappingId] < timestamp
    THEN [cur EXCEPT ![mappingId] = timestamp]
    ELSE cur

\* updateSyncTimestamp: UPDATE SyncMappings SET last_sync_timestamp = ? WHERE id = ?
updateSyncTimestamp(cur, mappingId, timestamp) ==
    [cur EXCEPT ![mappingId] = timestamp]

\* SELECT * FROM SyncMappings WHERE is_active = 1
getActiveSyncMappings == {m \in Mappings : is_active[m] = 1}

\* ------------------------------------------------------------------- clients
\* ClickUpClient.getTasksUpdatedSince: date_updated_gt filter on the list.
ClickUpTaskOf(a) ==
    [id |-> a, name |-> a, due_date |-> Null, time_estimate |-> Null,
     assignees |-> AssigneesOf(a), date_updated |-> clk[a].date_updated]

ClickUpTasksUpdatedSince(listId, updatedSince) ==
    LET ids == SortedSeq({a \in ClickUpTaskIds :
                            /\ ListOf(a) = listId
                            /\ clk[a].date_updated # Null
                            /\ clk[a].date_updated > updatedSince})
    IN  [k \in 1..Len(ids) |-> ClickUpTaskOf(ids[k])]

MotionTaskOf(b) ==
    [id |-> b, completed |-> mot[b].completed, dueDate |-> Null, duration |-> Null,
     updatedTime |-> mot[b].updatedTime]

\* The local filter keeps a task whose updatedTime equals updatedSince.
MotionTasksUpdatedSinceInclusive(workspaceId, updatedSince) ==
    LET ids == SortedSeq({b \in MotionTaskIds :
                            /\ mot[b].updatedTime # Null
                            /\ mot[b].workspace = workspaceId
                            /\ mot[b].updatedTime >= updatedSince})
    IN  [k \in 1..Len(ids) |-> MotionTaskOf(ids[k])]

\* MotionClient.getTasksUpdatedSince: all tasks of the workspace, filtered
\* locally by updatedTime > updatedSince.
MotionTasksUpdatedSince(workspaceId, updatedSince) ==
    LET ids == SortedSeq({b \in MotionTaskIds :
                            /\ mot[b].updatedTime # Null
                            /\ mot[b].workspace = workspaceId
                            /\ mot[b].updatedTime > updatedSince})
    IN  [k \in 1..Len(ids) |-> MotionTaskOf(ids[k])]

FreeMotionIds == {b \in MotionTaskIds : mot[b].updatedTime = Null}

\* ------------------------------------------------------------ loop positions
BeginMotionLoop(t) ==
    IF Len(t.updatedMotionTasks) > 0
    THEN [t EXCEPT !.pc = "lookupMot", !.i = 1]
    ELSE [t EXCEPT !.pc = "commit", !.i = 0]

BeginClickUpLoop(t) ==
    IF Len(t.updatedClickUpTasks) > 0
    THEN [t EXCEPT !.pc = "lookupClk", !.i = 1]
    ELSE BeginMotionLoop(t)

NextClickUpTask(t) ==
    IF t.i < Len(t.updatedClickUpTasks)
    THEN [t EXCEPT !.pc = "lookupClk", !.i = t.i + 1, !.newMotionTask = Null]
    ELSE BeginMotionLoop([t EXCEPT !.newMotionTask = Null])

NextMotionTask(t) ==
    IF t.i < Len(t.updatedMotionTasks)
    THEN [t EXCEPT !.pc = "lookupMot", !.i = t.i + 1, !.existingLink = Null]
    ELSE [t EXCEPT !.pc = "commit", !.i = 0, !.existingLink = Null]

\* The exception is swallowed and the callback goes on to the cursor update.
AbortSwallowed(t, where) == [t EXCEPT !.pc = "commit", !.failedAt = where]

\* The pass of mapping m ended by an exception that left processSyncPair or
\* updateSyncTimestamp: runSync's catch logs it.
Abort(t, where) == [t EXCEPT !.pc = "failed", !.failedAt = where]

\* The exception leaves the loop: no per-task catch.
RethrowClickUpTaskError(t, a) ==
    [t EXCEPT !.pc = "failed", !.failedAt = "task", !.caught = @ \cup {<<"clk", a>>}]

\* The failed ClickUp task is attempted again from its transformation.
RetryClickUpTaskError(t, a) ==
    [t EXCEPT !.pc = "create", !.newMotionTask = Null, !.caught = @ \cup {<<"clk", a>>}]

\* catch of the ClickUp loop: log, continue with the next ClickUp task.
CatchClickUpTaskError(t, a) ==
    NextClickUpTask([t EXCEPT !.caught = @ \cup {<<"clk", a>>}])

\* The exception leaves the loop: no per-task catch.
RethrowMotionTaskError(t, b) ==
    [t EXCEPT !.pc = "failed", !.failedAt = "task", !.caught = @ \cup {<<"mot", b>>}]

\* catch of the Motion loop: log, continue with the next Motion task.
CatchMotionTaskError(t, b) ==
    NextMotionTask([t EXCEPT !.caught = @ \cup {<<"mot", b>>}])

\* The argument runSync passes for processSyncPair's userMap parameter.
runSyncUserMap == UndefinedMap

\* currentSyncStartTimeISO = new Date().toISOString()
currentSyncStartTimeISO(now) == now

\* The since-timestamp is taken one instant past the stored cursor.
lastSyncOfNextInstant(last_sync_timestamp) ==
    IF last_sync_timestamp = Null THEN Epoch ELSE last_sync_timestamp + 1

\* lastSync = last_sync_timestamp || '1970-01-01T00:00:00Z'
lastSyncOf(last_sync_timestamp) ==
    IF last_sync_timestamp = Null THEN Epoch ELSE last_sync_timestamp

\* Whether the callback of mapping m in run r may take its next step only if
\* no callback of the run has failed.
PairMayStepUnlessSiblingFailed(r, m) ==
    /\ run[r] = "running"
    /\ task[r][m].pc \notin Terminal \cup {"idle"}
    /\ \A o \in Mappings : task[r][o].pc # "failed"

\* The mappings are awaited one after the other: a callback steps only once
\* the callbacks of the mappings before it have settled.
PairMayStepInSequence(r, m) ==
    /\ run[r] = "running"
    /\ task[r][m].pc \notin Terminal \cup {"idle"}
    /\ \A o \in Mappings : o < m => task[r][o].pc \in Terminal \cup {"idle"}

\* Whether the callback of mapping m in run r may take its next step: the
\* callbacks are independent promises, settled by Promise.allSettled.
PairMayStep(r, m) ==
    /\ run[r] = "running"
    /\ task[r][m].pc \notin Terminal \cup {"idle"}

CanFault == faults < MaxFaults

\* A secret of the worker: a real key, not set, or the placeholder.
Secrets == {"key", Undefined, "dummy"}

\* getConfig that accepts any secret.
getConfigNeverThrows(e) == FALSE

\* getConfig: throws when a secret is not set or is still the dummy value.
getConfigThrows(e) ==
    \/ e.CLICKUP_API_KEY = Undefined \/ e.CLICKUP_API_KEY = "dummy"
    \/ e.MOTION_API_KEY = Undefined \/ e.MOTION_API_KEY = "dummy"

\* No dataTransformer call is under test.
NoInput == [kind |-> "none"]
NoOutput == [returned |-> FALSE]

\* -------------------------------------------------------------------- Init
InitStores(spent) ==
    /\ clock = 1
    /\ cursor = [m \in Mappings |-> Null]
    /\ links = {}
    /\ clk = [a \in ClickUpTaskIds |-> [date_updated |-> Null, status |-> "open"]]
    /\ mot = [b \in MotionTaskIds |->
                [workspace |-> Null, updatedTime |-> Null, createdTime |-> Null,
                 completed |-> FALSE, origin |-> Null]]
    /\ run = [r \in Runs |-> "idle"]
    /\ task = [r \in Runs |-> [m \in Mappings |-> IdleTask]]
    /\ faults = spent
    /\ edits = 0
    /\ upstream = [m \in Mappings |-> FALSE]
    /\ lastPass = [m \in Mappings |-> "none"]

\* The SyncMappings rows are all active or all inactive; each secret is a
\* key, unset or the placeholder.
Init ==
    /\ InitStores(0)
    /\ is_active \in {[m \in Mappings |-> 1], [m \in Mappings |-> 0]}
    /\ env \in [CLICKUP_API_KEY : Secrets, MOTION_API_KEY : Secrets]
    /\ input = NoInput
    /\ output = NoOutput

\* Only the first SyncMappings row is active, and no call raises.
InitOverlap ==
    /\ InitStores(MaxFaults)
    /\ is_active = [m \in Mappings |-> IF m = 1 THEN 1 ELSE 0]
    /\ env = [CLICKUP_API_KEY |-> "key", MOTION_API_KEY |-> "key"]
    /\ input = NoInput
    /\ output = NoOutput

\* Every SyncMappings row is active, and no call raises.
InitHang ==
    /\ InitStores(MaxFaults)
    /\ is_active = [m \in Mappings |-> 1]
    /\ env = [CLICKUP_API_KEY |-> "key", MOTION_API_KEY |-> "key"]
    /\ input = NoInput
    /\ output = NoOutput

\* A linked pair exists: ClickUp task 2 was created in Motion as task 1 and
\* linked by a pass whose cursor update then raised; only the first
\* SyncMappings row is active and no further call raises.
InitSteady ==
    /\ clock = 1
    /\ cursor = [m \in Mappings |-> Null]
    /\ links = {[clickup_task_id |-> 2, motion_task_id |-> 1]}
    /\ clk = [a \in ClickUpTaskIds |->
                [date_updated |-> IF a = 2 THEN 1 ELSE Null, status |-> "open"]]
    /\ mot = [b \in MotionTaskIds |->
                IF b = 1
                THEN [workspace |-> 1, updatedTime |-> 1, createdTime |-> 1,
                      completed |-> FALSE, origin |-> 2]
                ELSE [workspace |-> Null, updatedTime |-> Null, createdTime |-> Null,
                      completed |-> FALSE, origin |-> Null]]
    /\ run = [r \in Runs |-> "idle"]
    /\ task = [r \in Runs |-> [m \in Mappings |-> IdleTask]]
    /\ faults = MaxFaults
    /\ edits = 0
    /\ upstream = [m \in Mappings |-> FALSE]
    /\ lastPass = [m \in Mappings |-> IF m = 1 THEN "dirty" ELSE "none"]
    /\ is_active = [m \in Mappings |-> IF m = 1 THEN 1 ELSE 0]
    /\ env = [CLICKUP_API_KEY |-> "key", MOTION_API_KEY |-> "key"]
    /\ input = NoInput
    /\ output = NoOutput

\* The Motion tasks and ClickUp tasks a dataTransformer call is made with:
\* dates absent, unparseable or an instant; durations absent, zero or
\* positive; estimates absent, zero, below, at and above half a minute.
MotionDueDates == {Null, NaN, 0, 1}
MotionDurations == {Null, 0, 1, 2}
ClickUpDueDates == {Null, NaN, 1}
ClickUpTimeEstimates == {Null, 0, 1, 29999, 30000, 89999, 90000, 120000}

MotionTaskInputs ==
    {[id |-> 1, completed |-> c, dueDate |-> dd, duration |-> d, updatedTime |-> 1] :
        c \in BOOLEAN, dd \in MotionDueDates, d \in MotionDurations}

ClickUpTaskInputs ==
    {[id |-> 1, name |-> 1, due_date |-> dd, time_estimate |-> e, assignees |-> as,
      date_updated |-> 1] :
        dd \in ClickUpDueDates, e \in ClickUpTimeEstimates,
        as \in {<<>>, <<7>>, <<8>>, <<7, 8>>, <<8, 7>>}}

UserMapInputs == {UndefinedMap, MapOf([u \in {7} |-> 70])}

\* What the Motion list endpoint holds for a MotionClient.getTasksUpdatedSince
\* call: one to MaxPages pages, each with no task, a task updated at 1, a
\* task updated at 2, or both; every page but the last carries a nextCursor.
MotionPageContents ==
    {<<>>,
     <<[id |-> 1, updatedTime |-> 1]>>,
     <<[id |-> 2, updatedTime |-> 2]>>,
     <<[id |-> 1, updatedTime |-> 1], [id |-> 2, updatedTime |-> 2]>>}

MotionPageLists == UNION {[1..n -> MotionPageContents] : n \in 1..MaxPages}

\* The local state of getTasksUpdatedSince before its first request.
FetchStarted ==
    [returned |-> FALSE, threw |-> FALSE, allTasks |-> <<>>, cursor |-> Null,
     hasMore |-> TRUE, page |-> 1, requests |-> <<>>, result |-> <<>>]

\* One MotionClient.getTasksUpdatedSince call is to be made, since the epoch
\* or since 1; the request of page failAt, if there is one, raises.
InitPaging ==
    /\ InitStores(0)
    /\ is_active = [m \in Mappings |-> 1]
    /\ env = [CLICKUP_API_KEY |-> "key", MOTION_API_KEY |-> "key"]
    /\ \E pages \in MotionPageLists, since \in {Epoch, 1}, failAt \in 0..MaxPages :
          input = [kind |-> "getTasksUpdatedSince", pages |-> pages,
                   updatedSince |-> since, failAt |-> failAt]
    /\ output = FetchStarted

\* One dataTransformer call is to be made; the stores are empty and stay so.
InitTransform ==
    /\ InitStores(0)
    /\ is_active = [m \in Mappings |-> 1]
    /\ env = [CLICKUP_API_KEY |-> "key", MOTION_API_KEY |-> "key"]
    /\ \/ \E mt \in MotionTaskInputs :
             input = [kind |-> "transformMotionToClickUp", motionTask |-> mt]
       \/ \E ct \in ClickUpTaskInputs, um \in UserMapInputs :
             input = [kind |-> "transformClickUpToMotion", clickUpTask |-> ct,
                      motionWorkspaceId |-> 1, userMap |-> um]
    /\ output = NoOutput

\* ------------------------------------------------------------- environment
Tick ==
    /\ clock < MaxClock
    /\ clock' = clock + 1
    /\ UNCHANGED <<env, input, output, cursor, is_active, links, clk, mot, run, task, faults, edits, upstream, lastPass>>

\* A user creates or edits a ClickUp task.
UserEditsClickUpTask(a) ==
    /\ edits < MaxEdits
    /\ edits' = edits + 1
    /\ clk[a].date_updated # clock
    /\ clk' = [clk EXCEPT ![a].date_updated = clock]
    /\ upstream' = [upstream EXCEPT ![ListOf(a)] = TRUE]
    /\ UNCHANGED <<env, input, output, clock, cursor, is_active, links, mot, run, task, faults, lastPass>>

\* A user completes or reopens an existing Motion task.
UserEditsMotionTask(b) ==
    /\ edits < MaxEdits
    /\ edits' = edits + 1
    /\ mot[b].updatedTime # Null
    /\ mot' = [mot EXCEPT ![b].completed = ~mot[b].completed,
                          ![b].updatedTime = clock]
    /\ upstream' = [upstream EXCEPT ![mot[b].workspace] = TRUE]
    /\ UNCHANGED <<env, input, output, clock, cursor, is_active, links, clk, run, task, faults, lastPass>>

\* ------------------------------------------------------------------ runSync
\* scheduled -> getConfig -> runSync: every mapping callback runs up to its
\* first await, the two fetch requests of processSyncPair.
StartRun(r) ==
    /\ run[r] = "idle"
    /\ \A q \in Runs : q < r => run[q] # "idle"
    /\ run' = [run EXCEPT ![r] = "running"]
    /\ ~getConfigThrows(env)
    /\ getActiveSyncMappings # {}
    /\ task' = [task EXCEPT ![r] = [m \in Mappings |->
                  IF m \in getActiveSyncMappings
                  THEN [IdleTask EXCEPT !.pc = "fetch",
                                        !.lastSync = lastSyncOf(cursor[m]),
                                        !.start = currentSyncStartTimeISO(clock),
                                        !.quiet = (lastPass[m] = "clean" /\ ~upstream[m])]
                  ELSE IdleTask]]
    /\ upstream' = [m \in Mappings |->
                      IF m \in getActiveSyncMappings THEN FALSE ELSE upstream[m]]
    /\ UNCHANGED <<env, input, output, clock, cursor, is_active, links, clk, mot, faults, edits, lastPass>>

\* The cron trigger fires while a run is still in flight.
scheduledWhileRunning(r) == StartRun(r)

scheduled(r) ==
    /\ \A q \in Runs : run[q] # "running"
    /\ StartRun(r)

scheduledOverlapping(r) ==
    /\ \E q \in Runs : run[q] = "running"
    /\ StartRun(r)

\* scheduled: getConfig throws (caught and logged) or there is no active
\* mapping; the handler returns without calling runSync.
scheduledReturnsEarly(r) ==
    /\ run[r] = "idle"
    /\ \A q \in Runs : q < r => run[q] # "idle"
    /\ \A q \in Runs : run[q] # "running"
    /\ getConfigThrows(env) \/ getActiveSyncMappings = {}
    /\ run' = [run EXCEPT ![r] = "skipped"]
    /\ UNCHANGED <<env, input, output, clock, cursor, is_active, links, clk, mot, task, faults,
                   edits, upstream, lastPass>>

\* Promise.allSettled(syncPromises) resolves.
runSyncFinished(r) ==
    /\ run[r] = "running"
    /\ \A m \in Mappings : task[r][m].pc \in Terminal \cup {"idle"}
    /\ run' = [run EXCEPT ![r] = "finished"]
    /\ UNCHANGED <<env, input, output, clock, cursor, is_active, links, clk, mot, task, faults, edits, upstream, lastPass>>

\* ---------------------------------------------------------- processSyncPair
\* Step 1: both getTasksUpdatedSince calls return.
FetchUpdatedTasks(r, m) ==
    /\ PairMayStep(r, m)
    /\ task[r][m].pc = "fetch"
    /\ LET t == task[r][m]
           got == [t EXCEPT
                     !.updatedClickUpTasks =
                        ClickUpTasksUpdatedSince(clickup_list_id(m), t.lastSync),
                     !.updatedMotionTasks =
                        MotionTasksUpdatedSince(motion_workspace_id(m), t.lastSync)]
       IN  task' = [task EXCEPT ![r][m] = BeginClickUpLoop(got)]
    /\ UNCHANGED <<env, input, output, clock, cursor, is_active, links, clk, mot, run, faults, edits, upstream, lastPass>>

\* Step 1: one of the two getTasksUpdatedSince calls raises; Promise.all
\* rejects and processSyncPair raises.
FetchRaises(r, m) ==
    /\ PairMayStep(r, m)
    /\ task[r][m].pc = "fetch"
    /\ CanFault
    /\ faults' = faults + 1
    /\ task' = [task EXCEPT ![r][m] = Abort(task[r][m], "fetch")]
    /\ lastPass' = [lastPass EXCEPT ![m] = "dirty"]
    /\ UNCHANGED <<env, input, output, clock, cursor, is_active, links, clk, mot, run, edits, upstream>>

\* Step 2 without the existingLink test: every changed ClickUp task is
\* treated as new.
LookupClickUpLinkIgnored(r, m) ==
    /\ PairMayStep(r, m)
    /\ task[r][m].pc = "lookupClk"
    /\ LET t == task[r][m]
           a == t.updatedClickUpTasks[t.i].id
       IN  task' = [task EXCEPT ![r][m] =
                      [t EXCEPT !.pc = "create", !.visitedClk = @ \cup {a},
                                !.unlinked = @ \cup {a}]]
    /\ UNCHANGED <<env, input, output, clock, cursor, is_active, links, clk, mot, run, faults,
                   edits, upstream, lastPass>>

\* Step 2: getTaskLinkByClickupId for the current ClickUp task returns.
LookupClickUpLink(r, m) ==
    /\ PairMayStep(r, m)
    /\ task[r][m].pc = "lookupClk"
    /\ LET t == task[r][m]
           clkTask == t.updatedClickUpTasks[t.i]
           a == clkTask.id
           seen == [t EXCEPT !.visitedClk = @ \cup {a}]
       IN  task' = [task EXCEPT ![r][m] =
                      IF getTaskLinkByClickupId(links, a) = {}
                      THEN [seen EXCEPT !.pc = "create", !.unlinked = @ \cup {a}]
                      ELSE NextClickUpTask(seen)]
    /\ UNCHANGED <<env, input, output, clock, cursor, is_active, links, clk, mot, run, faults, edits, upstream, lastPass>>

\* Step 2: getTaskLinkByClickupId raises; the call is outside the per-task
\* try, so processSyncPair raises.
LookupClickUpLinkRaises(r, m) ==
    /\ PairMayStep(r, m)
    /\ task[r][m].pc = "lookupClk"
    /\ CanFault
    /\ faults' = faults + 1
    /\ LET t == task[r][m]
           clkTask == t.updatedClickUpTasks[t.i]
           a == clkTask.id
       IN  task' = [task EXCEPT ![r][m] =
                      Abort([t EXCEPT !.visitedClk = @ \cup {a}], "lookupClk")]
    /\ lastPass' = [lastPass EXCEPT ![m] = "dirty"]
    /\ UNCHANGED <<env, input, output, clock, cursor, is_active, links, clk, mot, run, edits, upstream>>

\* Step 2, unlinked task: transformClickUpToMotion throws; caught per task.
TransformThrows(r, m) ==
    /\ PairMayStep(r, m)
    /\ task[r][m].pc = "create"
    /\ LET t == task[r][m]
           clkTask == t.updatedClickUpTasks[t.i]
           a == clkTask.id
       IN  /\ transformClickUpToMotion(clkTask, motion_workspace_id(m),
                                       runSyncUserMap).threw
           /\ task' = [task EXCEPT ![r][m] = CatchClickUpTaskError(t, a)]
    /\ UNCHANGED <<env, input, output, clock, cursor, is_active, links, clk, mot, run, faults, edits, upstream, lastPass>>

\* Step 2, unlinked task: motionClient.createTask returns the new Motion task.
CreateMotionTask(r, m) ==
    /\ PairMayStep(r, m)
    /\ task[r][m].pc = "create"
    /\ FreeMotionIds # {}
    /\ LET t == task[r][m]
           clkTask == t.updatedClickUpTasks[t.i]
           a == clkTask.id
           tr == transformClickUpToMotion(clkTask, motion_workspace_id(m),
                                          runSyncUserMap)
           b == Min(FreeMotionIds)
       IN  /\ ~tr.threw
           /\ mot' = [mot EXCEPT ![b] =
                        [workspace |-> tr.payload.workspaceId, updatedTime |-> clock,
                         createdTime |-> clock, completed |-> FALSE,
                         origin |-> tr.payload.name]]
           /\ task' = [task EXCEPT ![r][m] =
                         [t EXCEPT !.pc = "link", !.newMotionTask = b,
                                   !.createCalls = @ \cup {a},
                                   !.created = @ \cup {<<a, b>>}]]
    /\ UNCHANGED <<env, input, output, clock, cursor, is_active, links, clk, run, faults, edits, upstream, lastPass>>

\* Step 2, unlinked task: motionClient.createTask raises; caught per task.
CreateMotionTaskRaises(r, m) ==
    /\ PairMayStep(r, m)
    /\ task[r][m].pc = "create"
    /\ CanFault \/ FreeMotionIds = {}
    /\ faults' = IF CanFault THEN faults + 1 ELSE faults
    /\ LET t == task[r][m]
           clkTask == t.updatedClickUpTasks[t.i]
           a == clkTask.id
       IN  /\ ~transformClickUpToMotion(clkTask, motion_workspace_id(m),
                                        runSyncUserMap).threw
           /\ task' = [task EXCEPT ![r][m] =
                         CatchClickUpTaskError([t EXCEPT !.createCalls = @ \cup {a}], a)]
    /\ UNCHANGED <<env, input, output, clock, cursor, is_active, links, clk, mot, run, edits, upstream, lastPass>>

\* Step 2, unlinked task: createTaskLink for the task just created; a
\* constraint violation raises and is caught per task.
CreateLink(r, m) ==
    /\ PairMayStep(r, m)
    /\ task[r][m].pc = "link"
    /\ LET t == task[r][m]
           clkTask == t.updatedClickUpTasks[t.i]
           a == clkTask.id
           res == createTaskLink(links, a, t.newMotionTask)
           called == [t EXCEPT !.linkCalls = @ \cup {a}]
       IN  /\ links' = res.rows
           /\ task' = [task EXCEPT ![r][m] =
                         IF res.ok
                         THEN NextClickUpTask(
                                [called EXCEPT !.linked = @ \cup {<<a, t.newMotionTask>>}])
                         ELSE CatchClickUpTaskError(
                                [called EXCEPT !.conflicts = @ \cup {<<a, t.newMotionTask>>}],
                                a)]
    /\ UNCHANGED <<env, input, output, clock, cursor, is_active, clk, mot, run, faults, edits, upstream, lastPass>>

\* Step 2, unlinked task: createTaskLink raises for another D1 error.
CreateLinkRaises(r, m) ==
    /\ PairMayStep(r, m)
    /\ task[r][m].pc = "link"
    /\ CanFault
    /\ faults' = faults + 1
    /\ LET t == task[r][m]
           clkTask == t.updatedClickUpTasks[t.i]
           a == clkTask.id
       IN  task' = [task EXCEPT ![r][m] =
                      CatchClickUpTaskError([t EXCEPT !.linkCalls = @ \cup {a}], a)]
    /\ UNCHANGED <<env, input, output, clock, cursor, is_active, links, clk, mot, run, edits, upstream, lastPass>>

\* Step 3 with an unlinked Motion task adopted: a row is inserted that binds
\* it to the ClickUp task it was created from.
LookupMotionLinkAdopting(r, m) ==
    /\ PairMayStep(r, m)
    /\ task[r][m].pc = "lookupMot"
    /\ LET t == task[r][m]
           b == t.updatedMotionTasks[t.i].id
           found == getTaskLinkByMotionId(links, b)
           seen == [t EXCEPT !.visitedMot = @ \cup {b}]
       IN  IF found # {}
           THEN /\ links' = links
                /\ task' = [task EXCEPT ![r][m] =
                              [seen EXCEPT !.pc = "update",
                                           !.existingLink =
                                              (CHOOSE l \in found : TRUE).clickup_task_id]]
           ELSE /\ links' = links \cup {[clickup_task_id |-> mot[b].origin,
                                          motion_task_id |-> b]}
                /\ task' = [task EXCEPT ![r][m] = NextMotionTask(seen)]
    /\ UNCHANGED <<env, input, output, clock, cursor, is_active, clk, mot, run, faults, edits,
                   upstream, lastPass>>

\* Step 3: getTaskLinkByMotionId for the current Motion task returns.
LookupMotionLink(r, m) ==
    /\ PairMayStep(r, m)
    /\ task[r][m].pc = "lookupMot"
    /\ LET t == task[r][m]
           b == t.updatedMotionTasks[t.i].id
           found == getTaskLinkByMotionId(links, b)
           seen == [t EXCEPT !.visitedMot = @ \cup {b}]
       IN  task' = [task EXCEPT ![r][m] =
                      IF found # {}
                      THEN [seen EXCEPT !.pc = "update",
                                        !.existingLink =
                                           (CHOOSE l \in found : TRUE).clickup_task_id]
                      ELSE NextMotionTask(seen)]
    /\ UNCHANGED <<env, input, output, clock, cursor, is_active, links, clk, mot, run, faults, edits, upstream, lastPass>>

\* Step 3: getTaskLinkByMotionId raises; outside the per-task try.
LookupMotionLinkRaises(r, m) ==
    /\ PairMayStep(r, m)
    /\ task[r][m].pc = "lookupMot"
    /\ CanFault
    /\ faults' = faults + 1
    /\ LET t == task[r][m]
           b == t.updatedMotionTasks[t.i].id
       IN  task' = [task EXCEPT ![r][m] =
                      Abort([t EXCEPT !.visitedMot = @ \cup {b}], "lookupMot")]
    /\ lastPass' = [lastPass EXCEPT ![m] = "dirty"]
    /\ UNCHANGED <<env, input, output, clock, cursor, is_active, links, clk, mot, run, edits, upstream>>

\* Step 3 with updateTask addressed by the Motion task's own id.
UpdateClickUpTaskByMotionId(r, m) ==
    /\ PairMayStep(r, m)
    /\ task[r][m].pc = "update"
    /\ LET t == task[r][m]
           motTask == t.updatedMotionTasks[t.i]
           clickupPayload == transformMotionToClickUp(motTask)
           a == motTask.id
       IN  /\ clk' = [clk EXCEPT
                        ![a].status = IF "status" \in DOMAIN clickupPayload
                                      THEN clickupPayload.status ELSE @,
                        ![a].date_updated = clock]
           /\ task' = [task EXCEPT ![r][m] =
                         NextMotionTask([t EXCEPT !.updateCalls = @ \cup {a}])]
    /\ UNCHANGED <<env, input, output, clock, cursor, is_active, links, mot, run, faults, edits, upstream, lastPass>>

\* Step 3, linked task: transformMotionToClickUp, then updateTask when the
\* payload has a key.
UpdateClickUpTask(r, m) ==
    /\ PairMayStep(r, m)
    /\ task[r][m].pc = "update"
    /\ LET t == task[r][m]
           motTask == t.updatedMotionTasks[t.i]
           clickupPayload == transformMotionToClickUp(motTask)
           a == t.existingLink
       IN  IF DOMAIN clickupPayload # {}
           THEN /\ clk' = [clk EXCEPT
                             ![a].status = IF "status" \in DOMAIN clickupPayload
                                           THEN clickupPayload.status ELSE @,
                             ![a].date_updated = clock]
                /\ task' = [task EXCEPT ![r][m] =
                              NextMotionTask([t EXCEPT !.updateCalls = @ \cup {a}])]
           ELSE /\ clk' = clk
                /\ task' = [task EXCEPT ![r][m] = NextMotionTask(t)]
    /\ UNCHANGED <<env, input, output, clock, cursor, is_active, links, mot, run, faults, edits, upstream, lastPass>>

\* Step 3, linked task: clickupClient.updateTask raises; caught per task.
UpdateClickUpTaskRaises(r, m) ==
    /\ PairMayStep(r, m)
    /\ task[r][m].pc = "update"
    /\ CanFault
    /\ faults' = faults + 1
    /\ LET t == task[r][m]
           a == t.existingLink
           b == t.updatedMotionTasks[t.i].id
       IN  /\ DOMAIN transformMotionToClickUp(t.updatedMotionTasks[t.i]) # {}
           /\ task' = [task EXCEPT ![r][m] =
                         CatchMotionTaskError([t EXCEPT !.updateCalls = @ \cup {a}], b)]
    /\ UNCHANGED <<env, input, output, clock, cursor, is_active, links, clk, mot, run, edits, upstream, lastPass>>

\* The cursor is written only after a pass in which no task failed.
CommitCursorOnlyIfClean(r, m) ==
    /\ PairMayStep(r, m)
    /\ task[r][m].pc = "commit"
    /\ cursor' = IF task[r][m].caught = {}
                 THEN updateSyncTimestamp(cursor, m, task[r][m].start)
                 ELSE cursor
    /\ task' = [task EXCEPT ![r][m].pc = "done"]
    /\ lastPass' = [lastPass EXCEPT ![m] =
                      IF task[r][m].caught = {} THEN "clean" ELSE "dirty"]
    /\ UNCHANGED <<env, input, output, clock, is_active, links, clk, mot, run, faults, edits, upstream>>

\* runSync: processSyncPair returned; updateSyncTimestamp writes the start time.
CommitCursor(r, m) ==
    /\ PairMayStep(r, m)
    /\ task[r][m].pc = "commit"
    /\ cursor' = updateSyncTimestamp(cursor, m, task[r][m].start)
    /\ task' = [task EXCEPT ![r][m].pc = "done"]
    /\ lastPass' = [lastPass EXCEPT ![m] =
                      IF task[r][m].caught = {} THEN "clean" ELSE "dirty"]
    /\ UNCHANGED <<env, input, output, clock, is_active, links, clk, mot, run, faults, edits, upstream>>

\* runSync: updateSyncTimestamp raises; runSync's catch logs it.
CommitCursorRaises(r, m) ==
    /\ PairMayStep(r, m)
    /\ task[r][m].pc = "commit"
    /\ CanFault
    /\ faults' = faults + 1
    /\ task' = [task EXCEPT ![r][m] = Abort(task[r][m], "commit")]
    /\ lastPass' = [lastPass EXCEPT ![m] = "dirty"]
    /\ UNCHANGED <<env, input, output, clock, cursor, is_active, links, clk, mot, run, edits, upstream>>

\* ---------------------------------------------------------- specifications
PairReturns(r, m) ==
    \/ FetchUpdatedTasks(r, m)
    \/ LookupClickUpLink(r, m)
    \/ TransformThrows(r, m)
    \/ CreateMotionTask(r, m)
    \/ CreateLink(r, m)
    \/ LookupMotionLink(r, m)
    \/ UpdateClickUpTask(r, m)
    \/ CommitCursor(r, m)

PairRaises(r, m) ==
    \/ FetchRaises(r, m)
    \/ LookupClickUpLinkRaises(r, m)
    \/ CreateLinkRaises(r, m)
    \/ LookupMotionLinkRaises(r, m)
    \/ UpdateClickUpTaskRaises(r, m)
    \/ CommitCursorRaises(r, m)

PairStep(r, m) ==
    \/ PairReturns(r, m)
    \/ PairRaises(r, m)
    \/ CreateMotionTaskRaises(r, m)

Environment ==
    \/ Tick
    \/ \E a \in ClickUpTaskIds : UserEditsClickUpTask(a)
    \/ \E b \in MotionTaskIds : UserEditsMotionTask(b)

Next ==
    \/ Environment
    \/ \E r \in Runs : scheduled(r)
    \/ \E r \in Runs : scheduledReturnsEarly(r)
    \/ \E r \in Runs : runSyncFinished(r)
    \/ \E r \in Runs, m \in Mappings : PairStep(r, m)

NextOverlap ==
    \/ Environment
    \/ \E r \in Runs : scheduled(r)
    \/ \E r \in Runs : scheduledOverlapping(r)
    \/ \E r \in Runs : runSyncFinished(r)
    \/ \E r \in Runs, m \in Mappings : PairReturns(r, m)

\* The steps of a pass over tasks that are linked or cannot be created.
PairSteady(r, m) ==
    \/ FetchUpdatedTasks(r, m)
    \/ LookupClickUpLink(r, m)
    \/ TransformThrows(r, m)
    \/ LookupMotionLink(r, m)
    \/ UpdateClickUpTask(r, m)
    \/ CommitCursor(r, m)

NextSteady ==
    \/ Environment
    \/ \E r \in Runs : scheduled(r)
    \/ \E r \in Runs : runSyncFinished(r)
    \/ \E r \in Runs, m \in Mappings : PairSteady(r, m)

\* An awaited call of the callback of mapping m never returns: the callback
\* stays suspended at that await. One callback of a run hangs at most.
RemoteCallNeverReturns(r, m) ==
    /\ PairMayStep(r, m)
    /\ \A o \in Mappings : task[r][o].pc # "hung"
    /\ task' = [task EXCEPT ![r][m].pc = "hung"]
    /\ UNCHANGED <<env, input, output, clock, cursor, is_active, links, clk, mot, run, faults,
                   edits, upstream, lastPass>>

NextHang ==
    \/ Environment
    \/ \E r \in Runs : scheduled(r)
    \/ \E r \in Runs : runSyncFinished(r)
    \/ \E r \in Runs, m \in Mappings : PairReturns(r, m)
    \/ \E r \in Runs, m \in Mappings : RemoteCallNeverReturns(r, m)

stores == <<clock, cursor, is_active, links, clk, mot, run, task, faults, edits, upstream,
            lastPass, env>>

\* transformMotionToClickUp is called with the Motion task drawn.
transformMotionToClickUpCalled ==
    /\ input.kind = "transformMotionToClickUp"
    /\ ~output.returned
    /\ output' = [returned |-> TRUE, threw |-> FALSE,
                  payload |-> transformMotionToClickUp(input.motionTask)]
    /\ UNCHANGED <<input, stores>>

\* transformClickUpToMotion is called with the ClickUp task and userMap drawn.
transformClickUpToMotionCalled ==
    /\ input.kind = "transformClickUpToMotion"
    /\ ~output.returned
    /\ LET tr == transformClickUpToMotion(input.clickUpTask, input.motionWorkspaceId,
                                          input.userMap)
       IN  output' = [returned |-> TRUE, threw |-> tr.threw, payload |-> tr.payload]
    /\ UNCHANGED <<input, stores>>

\* GET /tasks?workspaceId=..[&cursor=..]: the page the cursor names, the first
\* page without a cursor; nextCursor names the following page, if any.
MotionTasksResponse(pages, pageCursor) ==
    LET n == IF pageCursor = Null THEN 1 ELSE pageCursor IN
    [tasks |-> pages[n], nextCursor |-> IF n < Len(pages) THEN n + 1 ELSE Null]

\* allTasks.filter(task => new Date(task.updatedTime).getTime() > updatedSinceTimestamp)
FilterUpdatedSince(tasks, updatedSinceTimestamp) ==
    SelectSeq(tasks, LAMBDA t : t.updatedTime > updatedSinceTimestamp)

\* Whether the loop of getTasksUpdatedSince is about to issue a request.
MotionFetchInLoop ==
    /\ input.kind = "getTasksUpdatedSince"
    /\ ~output.returned /\ ~output.threw
    /\ output.hasMore

\* The page response carries a nextCursor: concat, keep the cursor, loop on.
MotionPageReturnsWithNextCursor ==
    /\ MotionFetchInLoop
    /\ input.failAt # output.page
    /\ LET response == MotionTasksResponse(input.pages, output.cursor) IN
       /\ response.nextCursor # Null
       /\ output' = [output EXCEPT !.allTasks = @ \o response.tasks,
                                    !.cursor = response.nextCursor,
                                    !.page = @ + 1,
                                    !.requests = Append(@, output.cursor)]
    /\ UNCHANGED <<input, stores>>

\* The failed request ends the call with the tasks of the pages got so far.
MotionPageRaisesReturningPartial ==
    /\ MotionFetchInLoop
    /\ input.failAt = output.page
    /\ output' = [output EXCEPT !.hasMore = FALSE,
                                 !.returned = TRUE,
                                 !.requests = Append(@, output.cursor),
                                 !.result = FilterUpdatedSince(output.allTasks,
                                                               input.updatedSince)]
    /\ UNCHANGED <<input, stores>>

\* The page response carries no nextCursor: concat, leave the loop, filter
\* allTasks locally and return.
MotionLastPageReturns ==
    /\ MotionFetchInLoop
    /\ input.failAt # output.page
    /\ LET response == MotionTasksResponse(input.pages, output.cursor)
           all == output.allTasks \o response.tasks IN
       /\ response.nextCursor = Null
       /\ output' = [output EXCEPT !.allTasks = all,
                                    !.hasMore = FALSE,
                                    !.requests = Append(@, output.cursor),
                                    !.returned = TRUE,
                                    !.result = FilterUpdatedSince(all, input.updatedSince)]
    /\ UNCHANGED <<input, stores>>

\* this.request raises for a page: the catch logs and rethrows.
MotionPageRaises ==
    /\ MotionFetchInLoop
    /\ input.failAt = output.page
    /\ output' = [output EXCEPT !.threw = TRUE,
                                 !.requests = Append(@, output.cursor)]
    /\ UNCHANGED <<input, stores>>

NextPaging ==
    \/ MotionPageReturnsWithNextCursor
    \/ MotionLastPageReturns
    \/ MotionPageRaises

NextTransform ==
    \/ transformMotionToClickUpCalled
    \/ transformClickUpToMotionCalled

\* Runs do not overlap: a run starts only when no other run is in flight.
Spec == Init /\ [][Next]_vars

\* Runs may overlap: the cron trigger takes no lock.
SpecOverlap == InitOverlap /\ [][NextOverlap]_vars

\* Non-overlapping runs over an existing linked pair.
SpecSteady == InitSteady /\ [][NextSteady]_vars

\* The dataTransformer functions applied to each input.
SpecTransform == InitTransform /\ [][NextTransform]_vars

\* A call of one callback may never return; every call that is not hung
\* returns, and the event loop then resumes the callback awaiting it.
SpecHang ==
    /\ InitHang
    /\ [][NextHang]_vars
    /\ \A r \in Runs, m \in Mappings : WF_vars(PairReturns(r, m))

\* MotionClient.getTasksUpdatedSince against each held list of pages.
SpecPaging == InitPaging /\ [][NextPaging]_vars

\* ------------------------------------------------------------------ claims
IdsOf(tasks) == {tasks[k].id : k \in 1..Len(tasks)}

\* C1: a mapping's cursor is written only by the step that follows the
\* return of processSyncPair for that mapping, and the value written is the
\* start time the callback captured before its fetches, which is never
\* later than the time of the fetch and is not the time of the write.
CursorWrittenAfterPassWithStartTime ==
    [][/\ \A m \in Mappings :
            cursor'[m] # cursor[m] =>
                \E r \in Runs : /\ task[r][m].pc = "commit"
                                /\ task'[r][m].pc = "done"
                                /\ cursor'[m] = task[r][m].start
       /\ \A r \in Runs, m \in Mappings :
            (task[r][m].pc = "fetch" /\ task'[r][m].pc # "fetch")
                => task[r][m].start <= clock]_vars

\* C1 witness: a committed pass whose cursor is its start time, although a
\* task it fetched was modified later and the commit came later still.
CursorIsStartNotCommitNorModificationTime ==
    \E r \in Runs, m \in Mappings :
        LET t == task[r][m] IN
        /\ t.pc = "done"
        /\ cursor[m] = t.start
        /\ \E k \in 1..Len(t.updatedClickUpTasks) :
              t.updatedClickUpTasks[k].date_updated > t.start
        /\ \E c \in t.created : mot[c[2]].createdTime > t.start

\* C2: a pass whose fetch raised has failed without a createTask, updateTask
\* or createTaskLink call, and while its run lasts the mapping's cursor is
\* still the one the pass started from.
FetchFailureAbortsPass ==
    \A r \in Runs, m \in Mappings :
        LET t == task[r][m] IN
        t.failedAt = "fetch" =>
            /\ t.pc = "failed"
            /\ t.createCalls = {} /\ t.updateCalls = {} /\ t.linkCalls = {}
            /\ t.visitedClk = {} /\ t.visitedMot = {}
            /\ (run[r] = "running" => lastSyncOf(cursor[m]) = t.lastSync)

\* C2 witness: the fetch of mapping 1 raised while an unlinked ClickUp task
\* changed since the cursor was waiting in its list.
FetchFailedWithWorkPending ==
    \E r \in Runs :
        /\ run[r] = "running"
        /\ task[r][1].failedAt = "fetch"
        /\ clk[2].date_updated # Null
        /\ clk[2].date_updated > task[r][1].lastSync
        /\ getTaskLinkByClickupId(links, 2) = {}

\* C3: in a running run, whatever the other callbacks did (failed at the
\* fetch, in the loops or at the commit), a callback that has not ended can
\* take its next step, one that reached the cursor update can commit, and
\* once all have ended runSync can finish.
PairingsAreIndependent ==
    \A r \in Runs :
        run[r] = "running" =>
            /\ \A m \in Mappings :
                  /\ (task[r][m].pc \notin Terminal \cup {"idle"}
                        => ENABLED PairReturns(r, m))
                  /\ (task[r][m].pc = "commit" => ENABLED CommitCursor(r, m))
            /\ ((\A m \in Mappings : task[r][m].pc \in Terminal \cup {"idle"})
                  => ENABLED runSyncFinished(r))

\* C3 witness: in a finished run mapping 1 failed and mapping 2 committed its
\* start time.
OneFailedOtherCommitted ==
    \E r \in Runs :
        /\ run[r] = "finished"
        /\ task[r][1].pc = "failed"
        /\ task[r][2].pc = "done"
        /\ cursor[2] = task[r][2].start

\* C4 as stated: a pass whose fetch succeeded and whose commit did not raise
\* ends with every changed task looked at and the cursor committed.
ObjectFailureNeverAbortsPass ==
    \A r \in Runs, m \in Mappings :
        LET t == task[r][m] IN
        (t.pc \in Terminal /\ t.failedAt \notin {"fetch", "commit"}) =>
            /\ t.pc = "done"
            /\ t.visitedClk = IdsOf(t.updatedClickUpTasks)
            /\ t.visitedMot = IdsOf(t.updatedMotionTasks)

\* C4 amended: a pass fails only at the fetch, at a link lookup or at the
\* commit; an error raised inside the per-task try (transformation, createTask,
\* createTaskLink, updateTask) is caught, so a pass that reaches the commit has
\* looked at every changed task of both lists; a pass that failed at a lookup
\* has skipped the tasks after it and does not commit.
OnlyLookupFailureAbortsPass ==
    \A r \in Runs, m \in Mappings :
        LET t == task[r][m] IN
        /\ (t.pc = "failed" =>
              t.failedAt \in {"fetch", "lookupClk", "lookupMot", "commit"})
        /\ (t.pc \in {"commit", "done"} =>
              /\ t.failedAt = "none"
              /\ t.visitedClk = IdsOf(t.updatedClickUpTasks)
              /\ t.visitedMot = IdsOf(t.updatedMotionTasks))
        /\ (t.failedAt \in {"lookupClk", "lookupMot"} => t.pc = "failed")

\* C4 witness: the first of two changed ClickUp tasks raised and was caught,
\* the second was created and linked, and the cursor was committed.
FirstTaskFailedSecondLinked ==
    \E r \in Runs :
        LET t == task[r][1] IN
        /\ t.pc = "done"
        /\ Len(t.updatedClickUpTasks) = 2
        /\ <<"clk", t.updatedClickUpTasks[1].id>> \in t.caught
        /\ \E c \in t.linked : c[1] = t.updatedClickUpTasks[2].id
        /\ cursor[1] = t.start

\* C5: no ClickUp task id and no Motion task id is in two TaskLinks rows.
LinksAreBijective ==
    \A l1 \in links, l2 \in links :
        (l1.clickup_task_id = l2.clickup_task_id
           \/ l1.motion_task_id = l2.motion_task_id) => l1 = l2

\* C5 witness: two overlapping runs both created a Motion task for ClickUp
\* task 2 and both called createTaskLink; one row is stored.
TwoInsertsOneRow ==
    /\ \A r \in Runs : 2 \in task[r][1].linkCalls
    /\ Cardinality({b \in MotionTaskIds : mot[b].origin = 2}) = 2
    /\ Cardinality(links) = 1

\* C6: a createTaskLink call made while a row exists for the ClickUp id or
\* for the Motion id leaves TaskLinks as it was, is recorded as a caught
\* error of that task, and the pass goes on (it does not fail).
ConflictingInsertChangesNothing ==
    [][\A r \in Runs, m \in Mappings :
         LET t == task[r][m] IN
         (/\ t.pc = "link"
          /\ task'[r][m] # t
          /\ \E l \in links :
                \/ l.clickup_task_id = t.updatedClickUpTasks[t.i].id
                \/ l.motion_task_id = t.newMotionTask)
         => /\ links' = links
            /\ <<"clk", t.updatedClickUpTasks[t.i].id>> \in task'[r][m].caught
            /\ task'[r][m].pc \in {"lookupClk", "lookupMot", "commit"}]_vars

\* C6 witness: a pass whose insert met a conflict has committed; the Motion
\* task it created has no row.
ConflictCaughtPassCommitted ==
    \E r \in Runs :
        LET t == task[r][1] IN
        /\ t.pc = "done"
        /\ \E c \in t.conflicts :
              /\ getTaskLinkByMotionId(links, c[2]) = {}
              /\ getTaskLinkByClickupId(links, c[1]) # {}

\* C7 as stated: a pass that follows a clean committed pass of the same
\* mapping, with no user change since that earlier pass began, makes no
\* createTask call, no updateTask call and no TaskLinks row.
SecondRunWritesNothing ==
    \A r \in Runs, m \in Mappings :
        LET t == task[r][m] IN
        (t.quiet /\ ~upstream[m]) =>
            /\ t.createCalls = {}
            /\ t.updateCalls = {}
            /\ t.linked = {}

\* C8 as stated: at most one Motion task is ever created for a ClickUp task.
AtMostOneMotionTaskPerClickUpTask ==
    \A a \in ClickUpTaskIds :
        Cardinality({b \in MotionTaskIds : mot[b].origin = a}) <= 1

\* C9: no step lowers a mapping's cursor, and a step in which a pass fails
\* leaves every cursor as it was.
CursorNeverDecreases ==
    [][/\ \A m \in Mappings : cursor'[m] >= cursor[m]
       /\ \A r \in Runs, m \in Mappings :
            (task[r][m].pc # "failed" /\ task'[r][m].pc = "failed")
                => cursor' = cursor]_vars

\* C9 witness: two passes of mapping 1 committed, the later one a later start
\* time, after a pass of mapping 2 failed.
CursorAdvancedTwice ==
    \E r1 \in Runs, r2 \in Runs :
        /\ task[r1][1].pc = "done"
        /\ task[r2][1].pc = "done"
        /\ task[r1][1].start < task[r2][1].start
        /\ cursor[1] = task[r2][1].start
        /\ task[r1][2].pc = "failed"
        /\ cursor[2] = Null

\* C10 as stated: once the pass is done with a changed ClickUp task that had
\* no link, createTask was called for it, a link was inserted for it only
\* with the id of the Motion task created for it, and none was inserted
\* unless createTask returned.
EveryUnlinkedTaskGetsCreateTask ==
    \A r \in Runs, m \in Mappings :
        LET t == task[r][m] IN
        /\ t.linked \subseteq t.created
        /\ \A a \in t.unlinked :
              (t.pc \in {"create", "link"} /\ t.updatedClickUpTasks[t.i].id = a)
              \/ a \in t.createCalls

\* C20: while a secret is unset or the placeholder, or no mapping is active,
\* no invocation of scheduled starts runSync (every invocation is still to
\* come or returned early, and no mapping callback ever ran), no Motion task
\* was created, no ClickUp task was updated, and no cursor and no TaskLinks
\* row was written.
NothingAttemptedWithoutConfig ==
    (\/ env.CLICKUP_API_KEY \in {Undefined, "dummy"}
     \/ env.MOTION_API_KEY \in {Undefined, "dummy"}
     \/ \A m \in Mappings : is_active[m] = 0) =>
        /\ \A r \in Runs :
              /\ run[r] \in {"idle", "skipped"}
              /\ \A m \in Mappings : task[r][m] = IdleTask
        /\ \A b \in MotionTaskIds : mot[b].updatedTime = Null
        /\ \A a \in ClickUpTaskIds : clk[a].status = "open"
        /\ \A m \in Mappings : cursor[m] = Null
        /\ links = {}

\* C20 witness: with the ClickUp key still the placeholder and a changed
\* ClickUp task waiting in an active mapping's list, an invocation of
\* scheduled has returned early.
ScheduledReturnedEarlyWithWorkPending ==
    /\ env.CLICKUP_API_KEY = "dummy"
    /\ getActiveSyncMappings # {}
    /\ clk[2].date_updated # Null
    /\ \E r \in Runs : run[r] = "skipped"

\* C11: every step keeps every TaskLinks row (none is deleted or changed); a
\* step that adds a row is the createTaskLink step of the ClickUp loop and
\* adds the row of the task it just created; no step of the Motion loop
\* changes TaskLinks.
LinksOnlyAddedByClickUpLoop ==
    [][/\ links \subseteq links'
       /\ (links' # links =>
             \E r \in Runs, m \in Mappings :
                LET t == task[r][m] IN
                /\ t.pc = "link"
                /\ task'[r][m] # t
                /\ links' = links \cup
                      {[clickup_task_id |-> t.updatedClickUpTasks[t.i].id,
                        motion_task_id |-> t.newMotionTask]})
       /\ \A r \in Runs, m \in Mappings :
             (task[r][m].pc \in {"lookupMot", "update"} /\ task'[r][m] # task[r][m])
                => links' = links]_vars

\* C11 witness: a row inserted by one run is still in TaskLinks after another
\* run met a conflict on it and after a pass updated the ClickUp task from the
\* linked Motion task.
LinkSurvivedConflictAndUpdate ==
    \E r1 \in Runs, r2 \in Runs :
        /\ r1 # r2
        /\ task[r2][1].pc = "done"
        /\ task[r2][1].conflicts # {}
        /\ \E l \in task[r1][1].linked :
              /\ [clickup_task_id |-> l[1], motion_task_id |-> l[2]] \in links
              /\ \E r \in Runs : l[1] \in task[r][1].updateCalls

\* C12: the step of a pass that looks up a changed ClickUp task which has a
\* TaskLinks row writes nothing (TaskLinks, the Motion tasks and the ClickUp
\* tasks are as before, no createTask, createTaskLink or updateTask call is
\* recorded) and moves on to the next task, never to the creation path.
LinkedClickUpTaskIsSkipped ==
    [][\A r \in Runs, m \in Mappings :
         LET t == task[r][m] IN
         (/\ t.pc = "lookupClk"
          /\ task'[r][m] # t
          /\ task'[r][m].pc # "failed"
          /\ getTaskLinkByClickupId(links, t.updatedClickUpTasks[t.i].id) # {})
         => /\ links' = links /\ mot' = mot /\ clk' = clk
            /\ task'[r][m].pc \in {"lookupClk", "lookupMot", "commit"}
            /\ task'[r][m].createCalls = t.createCalls
            /\ task'[r][m].linkCalls = t.linkCalls
            /\ task'[r][m].updateCalls = t.updateCalls
            /\ task'[r][m].unlinked = t.unlinked]_vars

\* C12 witness: a pass has ended that fetched a ClickUp task edited after it
\* was linked, found its row and made no createTask call; the row and the
\* linked Motion task are as the earlier pass left them.
ChangedLinkedClickUpTaskLeftAlone ==
    \E r \in Runs, q \in Runs :
        LET t == task[r][1] IN
        /\ r # q
        /\ t.pc = "done"
        /\ t.createCalls = {}
        /\ \E l \in task[q][1].linked :
              /\ l[1] \in t.visitedClk \ t.unlinked
              /\ clk[l[1]].date_updated > task[q][1].start
              /\ [clickup_task_id |-> l[1], motion_task_id |-> l[2]] \in links
              /\ mot[l[2]].updatedTime = mot[l[2]].createdTime

\* C13: the step of a pass that looks up a changed Motion task which has no
\* TaskLinks row writes nothing (TaskLinks, the ClickUp tasks and the Motion
\* tasks are as before, no updateTask or createTaskLink call is recorded) and
\* moves on; and a ClickUp task comes into existence only by a user's edit,
\* never by a step of a run.
UnlinkedMotionTaskIsSkipped ==
    [][/\ \A r \in Runs, m \in Mappings :
            LET t == task[r][m] IN
            (/\ t.pc = "lookupMot"
             /\ task'[r][m] # t
             /\ task'[r][m].pc # "failed"
             /\ getTaskLinkByMotionId(links, t.updatedMotionTasks[t.i].id) = {})
            => /\ links' = links /\ clk' = clk /\ mot' = mot
               /\ task'[r][m].pc \in {"lookupMot", "commit"}
               /\ task'[r][m].updateCalls = t.updateCalls
               /\ task'[r][m].linkCalls = t.linkCalls
       /\ \A a \in ClickUpTaskIds :
            (clk[a].date_updated = Null /\ clk'[a].date_updated # Null)
               => (edits' = edits + 1 /\ task' = task)]_vars

\* C13 witness: a pass has ended that fetched a changed Motion task with no
\* TaskLinks row (its createTaskLink had failed) and made no updateTask call;
\* the Motion task still has no row.
UnlinkedMotionTaskLeftAlone ==
    \E r \in Runs :
        LET t == task[r][1] IN
        /\ t.pc = "done"
        /\ t.updateCalls = {}
        /\ \E b \in t.visitedMot :
              /\ getTaskLinkByMotionId(links, b) = {}
              /\ clk[mot[b].origin].status = "open"

\* C14: a step changes a ClickUp task's status only to the done status (so a
\* status once done is never changed back), and the updateTask step for a
\* Motion task fetched with completed = false has no status key in its payload
\* and leaves the linked ClickUp task's status as it was.
StatusOnlyEverSetToDone ==
    [][/\ \A a \in ClickUpTaskIds :
            clk'[a].status # clk[a].status
               => clk'[a].status = CLICKUP_DONE_STATUS_NAME
       /\ \A r \in Runs, m \in Mappings :
            LET t == task[r][m] IN
            (/\ t.pc = "update"
             /\ task'[r][m] # t
             /\ ~t.updatedMotionTasks[t.i].completed)
            => /\ "status" \notin DOMAIN transformMotionToClickUp(t.updatedMotionTasks[t.i])
               /\ clk'[t.existingLink].status = clk[t.existingLink].status]_vars

\* C14 witness: the Motion task was completed, a pass set the ClickUp task to
\* the done status, the Motion task was reopened, and a later pass fetched it
\* with completed = false and called updateTask; the ClickUp task is still
\* done.
ReopenedInMotionStillDoneInClickUp ==
    \E r1 \in Runs, r2 \in Runs :
        LET t1 == task[r1][1]
            t2 == task[r2][1] IN
        /\ r1 < r2
        /\ t1.pc = "done" /\ t2.pc = "done"
        /\ 2 \in t1.updateCalls /\ 2 \in t2.updateCalls
        /\ \E k \in 1..Len(t1.updatedMotionTasks) : t1.updatedMotionTasks[k].completed
        /\ \E k \in 1..Len(t2.updatedMotionTasks) :
              /\ t2.updatedMotionTasks[k].id = 1
              /\ ~t2.updatedMotionTasks[k].completed
        /\ ~mot[1].completed
        /\ clk[2].status = CLICKUP_DONE_STATUS_NAME

TimeEstimateFollowsDuration ==
    (input.kind = "transformMotionToClickUp" /\ output.returned) =>
        LET d == input.motionTask.duration
            p == output.payload IN
        /\ (d \in Nat \ {0} =>
               "time_estimate" \in DOMAIN p /\ p.time_estimate = d * 60000)
        /\ (d = 0 => "time_estimate" \in DOMAIN p /\ p.time_estimate = Null)
        /\ (d = Null => "time_estimate" \notin DOMAIN p)

\* C16 witness: the call for a Motion task with a duration of zero has
\* returned a payload whose time_estimate is null.
ZeroDurationClearsEstimate ==
    /\ input.kind = "transformMotionToClickUp"
    /\ input.motionTask.duration = 0
    /\ ~input.motionTask.completed
    /\ output.returned
    /\ "time_estimate" \in DOMAIN output.payload
    /\ output.payload.time_estimate = Null

\* C17: the payload has no key other than due_date, status and
\* time_estimate, and for a completed Motion task with no due date and a
\* duration of zero it is exactly {due_date: null, status: done status,
\* time_estimate: null}.
PayloadHasOnlySyncedFields ==
    (input.kind = "transformMotionToClickUp" /\ output.returned) =>
        /\ DOMAIN output.payload \subseteq {"due_date", "status", "time_estimate"}
        /\ (/\ input.motionTask.completed
            /\ input.motionTask.dueDate = Null
            /\ input.motionTask.duration = 0)
           => output.payload = [due_date |-> Null,
                                status |-> CLICKUP_DONE_STATUS_NAME,
                                time_estimate |-> Null]

\* C17 witness: the call for {completed: true, dueDate: null, duration: 0}
\* has returned a payload of three keys.
CompletedNoDueZeroDurationTransformed ==
    /\ input.kind = "transformMotionToClickUp"
    /\ input.motionTask.completed
    /\ input.motionTask.dueDate = Null
    /\ input.motionTask.duration = 0
    /\ output.returned
    /\ DOMAIN output.payload = {"due_date", "status", "time_estimate"}

\* C18: when transformClickUpToMotion returns, duration is the estimate in
\* minutes rounded to the nearest integer (half a minute rounds up; 90000 ms
\* gives 2), and is not a key of the payload when the estimate is absent,
\* zero or rounds to zero.
DurationIsEstimateRoundedToMinutes ==
    (/\ input.kind = "transformClickUpToMotion"
     /\ output.returned
     /\ ~output.threw) =>
        LET e == input.clickUpTask.time_estimate
            p == output.payload IN
        /\ (e = Null \/ e = 0 \/ (e \in Nat /\ 2 * e < 60000)
               => "duration" \notin DOMAIN p)
        /\ (e \in Nat /\ 2 * e >= 60000) =>
               /\ "duration" \in DOMAIN p
               /\ p.duration * 120000 <= 2 * e + 60000
               /\ 2 * e + 60000 < (p.duration + 1) * 120000
        /\ (e = 90000 => p.duration = 2)

\* C18 witness: the call for an estimate of 90000 ms has returned a payload
\* with duration 2.
NinetySecondsIsTwoMinutes ==
    /\ input.kind = "transformClickUpToMotion"
    /\ input.clickUpTask.time_estimate = 90000
    /\ output.returned
    /\ ~output.threw
    /\ output.payload.duration = 2

\* C19 as stated: an updateTask call is made for a linked Motion task only
\* when one of its synced fields changed: the task fetched is completed, or
\* it was modified after its creation (a task never touched since the sync
\* created it has updatedTime = createdTime and nothing to propagate).
UpdateOnlyWhenSyncedFieldChanged ==
    [][\A r \in Runs, m \in Mappings :
         LET t == task[r][m] IN
         (t.pc = "update" /\ task'[r][m].updateCalls # t.updateCalls) =>
            LET motTask == t.updatedMotionTasks[t.i] IN
            \/ motTask.completed
            \/ motTask.updatedTime # mot[motTask.id].createdTime]_vars

\* C21: a pass that starts after a failed pass of the same mapping fetches
\* with the since-timestamp the failed pass used; and within a pass nothing
\* is attempted twice: the fetch step is left for good, a task reaches
\* createTask only from its own link lookup and has no earlier createTask,
\* createTaskLink or updateTask call in that pass, and the loops only move
\* forward.
FailedPassIsRetriedOnlyByNextRun ==
    [][\A r \in Runs, m \in Mappings :
         LET t == task[r][m]
             u == task'[r][m] IN
         /\ (t.pc = "idle" /\ u.pc = "fetch") =>
               \A q \in Runs :
                  (q < r /\ task[q][m].pc = "failed") => u.lastSync = task[q][m].lastSync
         /\ (u # t /\ t.pc # "idle") =>
               /\ u.pc # "fetch"
               /\ (u.pc = "create" => t.pc = "lookupClk" /\ u.i = t.i)
               /\ (u.pc = "link" => t.pc = "create" /\ u.i = t.i)
               /\ (u.pc = "update" => t.pc = "lookupMot" /\ u.i = t.i)
               /\ (u.pc = "lookupClk" => t.pc = "fetch" \/ u.i = t.i + 1)
               /\ (u.pc = "lookupMot" =>
                     t.pc \in {"fetch", "lookupClk", "create", "link"} \/ u.i = t.i + 1)
               /\ (t.pc = "create" => t.updatedClickUpTasks[t.i].id \notin t.createCalls)
               /\ (t.pc = "link" => t.updatedClickUpTasks[t.i].id \notin t.linkCalls)
               /\ (t.pc = "update" => t.existingLink \notin t.updateCalls)]_vars

\* C21 witness: the first pass of mapping 1 failed after fetching a changed
\* ClickUp task; the next run's pass used the same since-timestamp, fetched
\* the task again and ended with it linked.
FailedPassWorkDoneByNextRun ==
    \E r \in Runs, q \in Runs :
        /\ q < r
        /\ task[q][1].pc = "failed"
        /\ task[q][1].updatedClickUpTasks # <<>>
        /\ task[r][1].pc = "done"
        /\ task[r][1].lastSync = task[q][1].lastSync
        /\ task[r][1].start > task[q][1].start
        /\ IdsOf(task[q][1].updatedClickUpTasks) \subseteq IdsOf(task[r][1].updatedClickUpTasks)
        /\ task[r][1].linked # {}

\* C22: once a pass of a mapping has settled, the fetch of the next run's
\* pass of that mapping returns every ClickUp task and Motion task of the
\* mapping whose last-modified time is later than the start time the settled
\* pass captured.
ChangeDuringPassIsFetchedByNextPass ==
    [][\A r \in Runs, q \in Runs, m \in Mappings :
         (/\ q < r
          /\ task[q][m].pc \in {"done", "failed"}
          /\ task[r][m].pc = "fetch"
          /\ task'[r][m].pc \notin {"fetch", "failed"}) =>
            /\ \A a \in ClickUpTaskIds :
                  (ListOf(a) = clickup_list_id(m) /\ clk[a].date_updated > task[q][m].start)
                     => a \in IdsOf(task'[r][m].updatedClickUpTasks)
            /\ \A b \in MotionTaskIds :
                  (/\ mot[b].updatedTime # Null
                   /\ mot[b].workspace = motion_workspace_id(m)
                   /\ mot[b].updatedTime > task[q][m].start)
                     => b \in IdsOf(task'[r][m].updatedMotionTasks)]_vars

\* C22 witness: a ClickUp task the committed first pass did not fetch was
\* modified after that pass's start time; the second pass, fetching since
\* that start time, returned it.
LateChangeFetchedByNextPass ==
    \E a \in ClickUpTaskIds :
        /\ task[1][1].pc = "done"
        /\ a \notin IdsOf(task[1][1].updatedClickUpTasks)
        /\ clk[a].date_updated > task[1][1].start
        /\ clk[a].date_updated <= task[2][1].start
        /\ task[2][1].lastSync = task[1][1].start
        /\ a \in IdsOf(task[2][1].updatedClickUpTasks)

\* C23: when the callback of another mapping of the same run hangs on a call
\* that never returns, a pass that has started still finishes and commits
\* its start time as the cursor of its mapping.
HungPairingDoesNotBlockOthers ==
    \A r \in Runs, m \in Mappings :
        (task[r][m].pc = "fetch" /\ \E o \in Mappings \ {m} : task[r][o].pc = "hung")
           ~> (task[r][m].pc = "done" /\ cursor[m] = task[r][m].start)

\* C23 witness: the callback of mapping 2 hangs while the pass of mapping 1
\* has created and linked a Motion task and committed its cursor.
OtherPairingCommittedBesideHungOne ==
    \E r \in Runs :
        /\ task[r][2].pc = "hung"
        /\ task[r][1].pc = "done"
        /\ task[r][1].linked # {}
        /\ cursor[1] = task[r][1].start
        /\ cursor[2] = Null

\* C24: a dataTransformer call never raises, and an unparseable due date is
\* left out of the payload it returns (dueDate for Motion, due_date for
\* ClickUp).
TransformNeverRaisesAndOmitsMalformed ==
    output.returned =>
        /\ ~output.threw
        /\ (input.kind = "transformClickUpToMotion" /\ input.clickUpTask.due_date = NaN)
              => "dueDate" \notin DOMAIN output.payload
        /\ (input.kind = "transformMotionToClickUp" /\ input.motionTask.dueDate = NaN)
              => "due_date" \notin DOMAIN output.payload

\* C25: the step of a pass that handles a changed Motion task with a
\* TaskLinks row calls updateTask exactly when transformMotionToClickUp gives
\* a payload with a key, and then on the clickup_task_id of that row and on
\* no other task; with a payload without keys it calls nothing and no ClickUp
\* task is written. No other step of a pass calls updateTask.
UpdateTaskOnLinkedTaskIffPayloadHasField ==
    [][\A r \in Runs, m \in Mappings :
         LET t == task[r][m]
             u == task'[r][m] IN
         /\ (t.pc # "update") => u.updateCalls = t.updateCalls
         /\ (t.pc = "update" /\ u # t) =>
               LET motTask == t.updatedMotionTasks[t.i]
                   row == getTaskLinkByMotionId(links, motTask.id)
                   hasField == DOMAIN transformMotionToClickUp(motTask) # {} IN
               /\ row # {}
               /\ \A l \in row :
                     IF hasField
                     THEN /\ u.updateCalls = t.updateCalls \cup {l.clickup_task_id}
                          /\ \A a \in ClickUpTaskIds \ {l.clickup_task_id} : clk'[a] = clk[a]
                          /\ \/ clk'[l.clickup_task_id].date_updated = clock
                             \/ <<"mot", motTask.id>> \in u.caught
                     ELSE u.updateCalls = t.updateCalls /\ clk' = clk]_vars

\* C25 witness: a pass has called updateTask on ClickUp task 2 for the
\* changed Motion task 1 that TaskLinks binds to it, and on nothing else;
\* the write landed.
UpdateTaskCalledOnLinkedClickUpTask ==
    \E r \in Runs :
        LET t == task[r][1] IN
        /\ [clickup_task_id |-> 2, motion_task_id |-> 1] \in links
        /\ 1 \in t.visitedMot
        /\ t.updateCalls = {2}
        /\ clk[2].date_updated > t.start
        /\ <<"mot", 1>> \notin t.caught

\* C26: however runs overlap, for each ClickUp task at most one run's
\* createTaskLink succeeds and at most one of the Motion tasks created from
\* it has a TaskLinks row; once both runs have called createTaskLink for it,
\* exactly one of the two Motion tasks has a row and the other is recorded
\* as a conflict of the run that created it.
OverlappingRunsLinkOneOfTwoMotionTasks ==
    \A a \in ClickUpTaskIds :
        LET made == {b \in MotionTaskIds : mot[b].origin = a}
            bound == {b \in made : getTaskLinkByMotionId(links, b) # {}}
            inserted == {r \in Runs : \E b \in MotionTaskIds : <<a, b>> \in task[r][1].linked}
        IN  /\ Cardinality(inserted) <= 1
            /\ Cardinality(bound) <= 1
            /\ (\A r \in Runs : a \in task[r][1].linkCalls) =>
                  /\ Cardinality(made) = 2
                  /\ Cardinality(bound) = 1
                  /\ \A b \in made \ bound :
                        \E r \in Runs : <<a, b>> \in task[r][1].conflicts

\* C26 witness: two overlapping runs read the same since-timestamp, both
\* found ClickUp task 2 without a row and created a Motion task for it; the
\* row of one was inserted, the insert of the other was refused and its
\* Motion task has no row.
SameCursorTwoMotionTasksOneUnlinked ==
    \E b1 \in MotionTaskIds, b2 \in MotionTaskIds, r1 \in Runs, r2 \in Runs :
        /\ b1 # b2 /\ r1 # r2
        /\ task[r1][1].lastSync = task[r2][1].lastSync
        /\ 2 \in task[r1][1].unlinked /\ 2 \in task[r2][1].unlinked
        /\ mot[b1].origin = 2 /\ mot[b2].origin = 2
        /\ <<2, b1>> \in task[r1][1].linked
        /\ <<2, b2>> \in task[r2][1].conflicts
        /\ getTaskLinkByMotionId(links, b2) = {}

\* C27: the two lists a pass fetches hold exactly the ClickUp tasks of the
\* mapping's list and the Motion tasks of its workspace whose last-modified
\* time is strictly greater than the stored cursor of the mapping, or than
\* the epoch when no cursor is stored.
FetchedAreExactlyThoseNewerThanCursor ==
    [][\A r \in Runs, m \in Mappings :
         (task[r][m].pc = "fetch" /\ task'[r][m].pc \notin {"fetch", "failed"}) =>
            LET since == IF cursor[m] = Null THEN Epoch ELSE cursor[m] IN
            /\ IdsOf(task'[r][m].updatedClickUpTasks) =
                  {a \in ClickUpTaskIds : /\ ListOf(a) = clickup_list_id(m)
                                           /\ clk[a].date_updated # Null
                                           /\ clk[a].date_updated > since}
            /\ IdsOf(task'[r][m].updatedMotionTasks) =
                  {b \in MotionTaskIds : /\ mot[b].updatedTime # Null
                                          /\ mot[b].workspace = motion_workspace_id(m)
                                          /\ mot[b].updatedTime > since}]_vars

\* C27 witness: the first pass, with no cursor stored, fetched since the
\* epoch and got a ClickUp task; the second pass fetched since the cursor the
\* first committed, got a ClickUp task modified later and did not get the
\* Motion task modified exactly at the cursor.
ModifiedAtCursorNotFetched ==
    \E a \in ClickUpTaskIds, b \in MotionTaskIds :
        /\ task[1][1].lastSync = Epoch
        /\ task[1][1].updatedClickUpTasks # <<>>
        /\ task[2][1].pc = "done"
        /\ task[2][1].lastSync = task[1][1].start
        /\ mot[b].updatedTime = task[2][1].lastSync
        /\ b \notin IdsOf(task[2][1].updatedMotionTasks)
        /\ clk[a].date_updated > task[2][1].lastSync
        /\ a \in IdsOf(task[2][1].updatedClickUpTasks)

\* C28: a pass that completed although creating or linking failed for a
\* ClickUp task has moved the cursor to its start time, and a later pass has
\* that task in its fetched list only if the task's last-modified time is
\* later than that cursor.
FailedTaskNotRetriedUnlessModifiedAgain ==
    \A q \in Runs, m \in Mappings, a \in ClickUpTaskIds :
        (task[q][m].pc = "done" /\ <<"clk", a>> \in task[q][m].caught) =>
            /\ cursor[m] # Null
            /\ cursor[m] >= task[q][m].start
            /\ \A r \in Runs :
                  (q < r /\ a \in IdsOf(task[r][m].updatedClickUpTasks))
                     => clk[a].date_updated > task[q][m].start

\* C28 witness: createTask raised for ClickUp task 2 in the first pass, which
\* still committed its start time; the task was not modified since, and the
\* second pass has ended without fetching it: it has no Motion task.
FailedTaskSkippedByNextPass ==
    /\ task[1][1].pc = "done"
    /\ 2 \in task[1][1].createCalls
    /\ task[1][1].created = {}
    /\ <<"clk", 2>> \in task[1][1].caught
    /\ clk[2].date_updated <= task[1][1].start
    /\ task[2][1].pc = "done"
    /\ task[2][1].lastSync = task[1][1].start
    /\ 2 \notin IdsOf(task[2][1].updatedClickUpTasks)
    /\ \A b \in MotionTaskIds : mot[b].origin # 2

\* C29: with overlapping runs, every commit of a pass stores that pass's own
\* start time as the cursor whatever the cursor was, also when the stored
\* cursor is later, and no other step changes the cursor; so the cursor is
\* the start time of the pass that committed last.
LastCommitDeterminesCursor ==
    [][/\ \A r \in Runs, m \in Mappings :
            (task[r][m].pc = "commit" /\ task'[r][m].pc = "done")
               => cursor'[m] = task[r][m].start
       /\ (\A r \in Runs, m \in Mappings :
              ~(task[r][m].pc = "commit" /\ task'[r][m].pc = "done"))
            => cursor' = cursor]_vars

\* C29 witness: the second run started later than the first and committed
\* first; the first run committed after it, and the stored cursor is the
\* first run's earlier start time.
CursorMovedBackToEarlierStart ==
    /\ task[1][1].pc = "done"
    /\ task[2][1].pc = "done"
    /\ task[1][1].start < task[2][1].start
    /\ task[1][1].lastSync = task[2][1].lastSync
    /\ cursor[1] = task[1][1].start

\* The tasks of pages 1..n of the list, in order.
RECURSIVE TasksOfFirstPages(_, _)
TasksOfFirstPages(pages, n) ==
    IF n = 0 THEN <<>> ELSE TasksOfFirstPages(pages, n - 1) \o pages[n]

\* C30: getTasksUpdatedSince requests the pages in order, the first without
\* a cursor and each next one with the nextCursor of the response before;
\* it goes on exactly while the responses carry a nextCursor; it returns
\* only after the page without one, and then the tasks of all pages that are
\* newer than updatedSince; when a request raises, no later request is made
\* and nothing is returned.
MotionFetchPagesToTheEndOrRaises ==
    (input.kind = "getTasksUpdatedSince") =>
        LET n == Len(input.pages)
            sent == Len(output.requests) IN
        /\ sent <= n
        /\ \A k \in 1..sent : output.requests[k] = IF k = 1 THEN Null ELSE k
        /\ output.returned =>
              /\ sent = n
              /\ ~output.threw
              /\ output.result =
                    SelectSeq(TasksOfFirstPages(input.pages, n),
                              LAMBDA t : t.updatedTime > input.updatedSince)
        /\ output.threw =>
              /\ sent = input.failAt
              /\ ~output.returned
              /\ output.result = <<>>
        /\ (~output.returned /\ ~output.threw) => (output.hasMore /\ sent < n)
        /\ (~output.returned /\ ~output.threw /\ input.failAt # sent + 1)
              => ENABLED MotionPageReturnsWithNextCursor \/ ENABLED MotionLastPageReturns

\* C30 witness: three pages were requested, the last without a nextCursor,
\* and the call returned the one task newer than updatedSince out of the
\* tasks of all three pages.
ThreePagesFetchedAndFiltered ==
    /\ input.kind = "getTasksUpdatedSince"
    /\ Len(input.pages) = 3
    /\ \A k \in 1..3 : input.pages[k] # <<>>
    /\ input.updatedSince = 1
    /\ output.returned
    /\ Len(output.requests) = 3
    /\ Len(output.allTasks) > Len(output.result)
    /\ Len(output.result) > 0

\* The Motion user ids of the assignees that userMap has an entry for, in
\* the order of the assignees.
RECURSIVE MappedAssigneeIds(_, _)
MappedAssigneeIds(assignees, entries) ==
    IF assignees = <<>> THEN <<>>
    ELSE LET rest == MappedAssigneeIds(Tail(assignees), entries) IN
         IF Head(assignees) \in DOMAIN entries
         THEN <<entries[Head(assignees)]>> \o rest
         ELSE rest

\* C31: the payload transformClickUpToMotion returns has no assigneeIds
\* exactly when the ClickUp task has no assignees; otherwise assigneeIds is
\* the list of the userMap entries of the assignees that have one, the
\* others dropped (an empty list when none has).
AssigneeIdsAreTheMappedIds ==
    (/\ input.kind = "transformClickUpToMotion"
     /\ output.returned
     /\ ~output.threw) =>
        LET assignees == input.clickUpTask.assignees IN
        /\ ("assigneeIds" \notin DOMAIN output.payload) <=> (assignees = <<>>)
        /\ (assignees # <<>>) =>
              output.payload.assigneeIds =
                 MappedAssigneeIds(assignees, input.userMap.entries)

\* C31 witness: the call for a task assigned to users 8 and 7, with a userMap
\* that knows user 7 only, returned assigneeIds holding just that entry.
UnmappedAssigneeDropped ==
    /\ input.kind = "transformClickUpToMotion"
    /\ input.clickUpTask.assignees = <<8, 7>>
    /\ input.userMap.defined
    /\ DOMAIN input.userMap.entries = {7}
    /\ output.returned
    /\ ~output.threw
    /\ output.payload.assigneeIds = <<input.userMap.entries[7]>>

\* C32: no step changes is_active of any SyncMappings row; the cursor of a
\* mapping changes only in the commit of a pass of that mapping, to that
\* pass's start time; and a step of a pass of one mapping leaves the cursor
\* of every other mapping as it was.
PassWritesOnlyItsOwnCursor ==
    [][/\ is_active' = is_active
       /\ \A m \in Mappings :
            cursor'[m] # cursor[m] =>
               \E r \in Runs : /\ task[r][m].pc = "commit"
                                /\ task'[r][m].pc = "done"
                                /\ cursor'[m] = task[r][m].start
       /\ \A r \in Runs, m \in Mappings :
            (task[r][m].pc # "idle" /\ task'[r][m] # task[r][m]) =>
               \A o \in Mappings \ {m} : cursor'[o] = cursor[o]]_vars

\* C32 witness: the pass of mapping 1 has committed its start time while the
\* pass of mapping 2 in the same run has not yet fetched; the row of
\* mapping 2 still has no cursor and both rows are still active.
OwnCursorWrittenOtherRowUntouched ==
    \E r \in Runs :
        /\ task[r][1].pc = "done"
        /\ cursor[1] = task[r][1].start
        /\ task[r][2].pc = "fetch"
        /\ cursor[2] = Null
        /\ \A m \in Mappings : is_active[m] = 1

====
